---- MODULE Spec2Model ----
(***************************************************************************)
(* The product catalogue of ecommerce/product: the tables of models.py,    *)
(* the self-populating OrderField of fields.py, the validate-then-save     *)
(* overrides of ProductLine, ProductImage and ProductLineAttributeValue,   *)
(* and the read endpoints of views.py with the serializers they use.       *)
(*                                                                         *)
(* A table is a set of rows (records with an id).  A model instance held   *)
(* by the writer (the object on which save() is called) is a record of     *)
(* the same shape whose id is None until the row is inserted.              *)
(***************************************************************************)
EXTENDS Integers, FiniteSets, Sequences, TLC

\* ------------------------------------------------------------------ bounds
MaxCategories == 2      \* rows ever inserted in Category
MaxProducts == 2        \* rows ever inserted in Product
MaxRows == 3            \* rows ever inserted in ProductLine and ProductImage together
MaxOrder == 3           \* order values stay within 1..MaxOrder
MaxAttrLines == 2       \* ProductLines the attribute specification attaches values to
MaxAttrRows == 6        \* rows ever inserted in Attribute, AttributeValue and
                        \* ProductLineAttributeValue together

None == 0 - 1                       \* Python's None (an unset pk, an unset order)
Names == {"n1", "n2"}               \* Category.name values
CatSlugs == {"c1", "c2"}            \* Category.slug values
Pids == {"p1", "p2"}                \* Product.pid values (unique)
Slugs == {"s1", "s2"}               \* Product.slug values
Prices == {10, 20}                  \* ProductLine.price values
Urls == {"a.jpg", "b.jpg"}          \* ProductImage.url values
AttrNames == {"color", "size"}      \* Attribute.name values

VARIABLES
    category,          \* table Category: [id, name, slug, is_active]
    product,           \* table Product: [id, pid, slug, is_active, category]
    product_line,      \* table ProductLine: [id, product, order, is_active, price]
    product_image,     \* table ProductImage: [id, product_line, order, url]
    attribute,         \* table Attribute: [id, name]
    attribute_value,   \* table AttributeValue: [id, attribute, value]
    plav,              \* table ProductLineAttributeValue: [id, attribute_value, product_line]
    pav,               \* table ProductAttributeValue: [id, attribute_value, product]
    seq,               \* the tables' id sequences: last id handed out per table
    pl,                \* the ProductLine instance the writer holds
    img,               \* the ProductImage instance the writer holds
    category_cache,    \* CategoryViewSet.queryset: [evaluated, rows] (its result cache)
    writer,            \* the concurrent ProductLine.save calls: per writer [pc, self,
                       \* errors, value, seen, log]
    last,              \* the last operation: [op, errors, self] (errors = {} when it
                       \* succeeded; self = the instance save() was called on)
    response           \* the body of the read request being answered: [kind, slug, body]

vars == <<category, product, product_line, product_image, attribute, attribute_value,
          plav, pav, seq, pl, img, category_cache, writer, last, response>>

tables == <<category, product, product_line, product_image, attribute, attribute_value,
            plav, pav>>

\* ----------------------------------------------------------------- helpers
Ids(tbl) == {r.id : r \in tbl}
Row(tbl, id) == CHOOSE r \in tbl : r.id = id
Max(S) == CHOOSE x \in S : \A y \in S : y <= x

NoResponse == [kind |-> "none", slug |-> "", body |-> {}]
Done(op, errors, self) == /\ last' = [op |-> op, errors |-> errors, self |-> self]
                          /\ response' = NoResponse
OrderedRows == seq["product_line"] + seq["product_image"]
AttrRows == seq["attribute"] + seq["attribute_value"] + seq["plav"]

\* Model.save() -> _save_table: UPDATE the row with the instance's pk; when the pk is
\* unset, or no row has it, INSERT (with the next id of the sequence when unset).
SavedId(tbl, inst, name) == IF inst.id = None THEN seq[name] + 1 ELSE inst.id
Upsert(tbl, row) == {r \in tbl : r.id # row.id} \cup {row}
NextSeq(inst, name) == IF inst.id = None THEN [seq EXCEPT ![name] = @ + 1] ELSE seq

\* ------------------------------------------------------------- models.py
\* IsActiveQueryset.is_active without its filter (mutant)
IsActiveQueryset_is_active_unfiltered(qs) == qs

\* IsActiveQueryset.is_active: self.filter(is_active=True)
IsActiveQueryset_is_active(qs) == {r \in qs : r.is_active = TRUE}

\* QuerySet.latest(field): the row with the greatest value of the field
Latest(qs) == CHOOSE r \in qs : \A o \in qs : o.order <= r.order

\* OrderField.pre_save with an unscoped sibling query (mutant)
OrderField_pre_save_unscoped(tbl, unique_for_field, model_instance) ==
    IF model_instance.order = None
    THEN IF tbl = {} THEN 1 ELSE Latest(tbl).order + 1
    ELSE model_instance.order

\* OrderField.pre_save that does not query the stored siblings (mutant)
OrderField_pre_save_no_query(tbl, unique_for_field, model_instance) ==
    IF model_instance.order = None THEN 1 ELSE model_instance.order

\* OrderField.pre_save: the value written to the order column.  It is returned to the
\* SQL compiler and is not assigned to the instance.
OrderField_pre_save(tbl, unique_for_field, model_instance) ==
    IF model_instance.order = None
    THEN LET query_set == {r \in tbl : r[unique_for_field] = model_instance[unique_for_field]}
         IN  IF query_set = {} THEN 1 ELSE Latest(query_set).order + 1
    ELSE model_instance.order

\* ProductLine.clean that validates inserts only (mutant)
ProductLine_clean_insert_only(self) ==
    /\ self.id = None
    /\ \E obj \in {r \in product_line : r.product = self.product} : self.order = obj.order

\* ProductLine.clean that does not exclude the row being saved (mutant)
ProductLine_clean_no_exclude(self) ==
    \E obj \in {r \in product_line : r.product = self.product} : self.order = obj.order

\* ProductLine.clean: TRUE when it raises ValidationError('Duplicate value.')
ProductLine_clean(self) ==
    \E obj \in {r \in product_line : r.product = self.product} :
        self.id # obj.id /\ self.order = obj.order

\* ProductImage.clean: TRUE when it raises ValidationError('Duplicate value.')
ProductImage_clean(self) ==
    \E obj \in {r \in product_image : r.product_line = self.product_line} :
        self.id # obj.id /\ self.order = obj.order

\* full_clean() of a ProductLine: clean_fields (the product must be set and exist; a
\* blank order is skipped because the field is blank=True), then clean().
ProductLine_full_clean(self) ==
    (IF self.product \notin Ids(product) THEN {"product"} ELSE {})
    \cup (IF ProductLine_clean(self) THEN {"Duplicate value."} ELSE {})

\* full_clean() of a ProductImage
ProductImage_full_clean(self) ==
    (IF self.product_line \notin Ids(product_line) THEN {"product_line"} ELSE {})
    \cup (IF ProductImage_clean(self) THEN {"Duplicate value."} ELSE {})

\* ---- the admin's writes on Category and Product (admin.site.register)
Category_save(id, name, slug, is_active) ==
    LET self == [id |-> id, name |-> name, slug |-> slug, is_active |-> is_active]
        others == {r \in category : r.id # id}
        errors == (IF \E r \in others : r.name = name THEN {"name"} ELSE {})
                  \cup (IF \E r \in others : r.slug = slug THEN {"slug"} ELSE {})
    IN  /\ id = None => seq["category"] < MaxCategories
        /\ id # None => id \in Ids(category)
        /\ IF errors = {}
           THEN /\ category' = Upsert(category, [self EXCEPT !.id = SavedId(category, self, "category")])
                /\ seq' = NextSeq(self, "category")
           ELSE UNCHANGED <<category, seq>>
        /\ Done("Category.save", errors, None)
        /\ UNCHANGED <<product, product_line, product_image, attribute, attribute_value,
                       plav, pav, pl, img, category_cache, writer>>

\* Product.category is on_delete=PROTECT
Category_delete(id) ==
    /\ id \in Ids(category)
    /\ IF \E p \in product : p.category = id
       THEN /\ UNCHANGED category
            /\ Done("Category.delete", {"ProtectedError"}, None)
       ELSE /\ category' = {r \in category : r.id # id}
            /\ Done("Category.delete", {}, None)
    /\ UNCHANGED <<product, product_line, product_image, attribute, attribute_value,
                   plav, pav, seq, pl, img, category_cache, writer>>

\* Product.pid is unique=True: the admin form rejects a pid another product has
Product_save(id, pid, slug, is_active, cat) ==
    LET self == [id |-> id, pid |-> pid, slug |-> slug, is_active |-> is_active,
                 category |-> cat]
        errors == IF \E r \in product : r.id # id /\ r.pid = pid THEN {"pid"} ELSE {}
    IN  /\ id = None => seq["product"] < MaxProducts
        /\ id # None => id \in Ids(product)
        /\ cat \in Ids(category)
        /\ IF errors = {}
           THEN /\ product' = Upsert(product, [self EXCEPT !.id = SavedId(product, self, "product")])
                /\ seq' = NextSeq(self, "product")
           ELSE UNCHANGED <<product, seq>>
        /\ Done("Product.save", errors, None)
        /\ UNCHANGED <<category, product_line, product_image, attribute, attribute_value,
                       plav, pav, pl, img, category_cache, writer>>

\* ProductLine.product is on_delete=PROTECT; ProductAttributeValue.product is CASCADE
Product_delete(id) ==
    /\ id \in Ids(product)
    /\ IF \E l \in product_line : l.product = id
       THEN /\ UNCHANGED <<product, pav>>
            /\ Done("Product.delete", {"ProtectedError"}, None)
       ELSE /\ product' = {r \in product : r.id # id}
            /\ pav' = {r \in pav : r.product # id}
            /\ Done("Product.delete", {}, None)
    /\ UNCHANGED <<category, product_line, product_image, attribute, attribute_value,
                   plav, seq, pl, img, category_cache, writer>>

\* ---- ProductLine
\* ProductLine(): an instance with no field given
BlankLine == [id |-> None, product |-> None, order |-> None, is_active |-> FALSE, price |-> None]

\* ProductLine.save on the instance self: full_clean(), then Model.save(), which asks
\* OrderField.pre_save for the value of the order column.
ProductLine_save(self) ==
    LET errors == ProductLine_full_clean(self)
        value == OrderField_pre_save(product_line, "product", self)
        id == SavedId(product_line, self, "product_line")
    IN  /\ self.id = None => OrderedRows < MaxRows
        /\ IF errors = {}
           THEN /\ value <= MaxOrder
                /\ product_line' = Upsert(product_line, [self EXCEPT !.id = id, !.order = value])
                /\ seq' = NextSeq(self, "product_line")
           ELSE UNCHANGED <<product_line, seq>>
        /\ Done("ProductLine.save", errors, self)
        /\ UNCHANGED <<category, product, product_image, attribute, attribute_value, plav, pav,
                       category_cache, writer>>

\* ProductLine.delete of row id: ProductImage.product_line and
\* ProductLineAttributeValue.product_line are on_delete=CASCADE.
ProductLine_delete(id) ==
    /\ id \in Ids(product_line)
    /\ product_line' = {r \in product_line : r.id # id}
    /\ product_image' = {r \in product_image : r.product_line # id}
    /\ plav' = {r \in plav : r.product_line # id}
    /\ Done("ProductLine.delete", {}, None)
    /\ UNCHANGED <<category, product, attribute, attribute_value, pav, seq, category_cache, writer>>

\* ---- ProductImage
BlankImage == [id |-> None, product_line |-> None, order |-> None, url |-> "test.jpg"]

\* ProductImage.save on the instance self: full_clean(), then Model.save()
ProductImage_save(self) ==
    LET errors == ProductImage_full_clean(self)
        value == OrderField_pre_save(product_image, "product_line", self)
        id == SavedId(product_image, self, "product_image")
    IN  /\ self.id = None => OrderedRows < MaxRows
        /\ IF errors = {}
           THEN /\ value <= MaxOrder
                /\ product_image' = Upsert(product_image, [self EXCEPT !.id = id, !.order = value])
                /\ seq' = NextSeq(self, "product_image")
           ELSE UNCHANGED <<product_image, seq>>
        /\ Done("ProductImage.save", errors, self)
        /\ UNCHANGED <<category, product, product_line, attribute, attribute_value, plav, pav,
                       category_cache, writer>>

ProductImage_delete(id) ==
    /\ id \in Ids(product_image)
    /\ product_image' = {r \in product_image : r.id # id}
    /\ Done("ProductImage.delete", {}, None)
    /\ UNCHANGED <<category, product, product_line, attribute, attribute_value, plav, pav, seq,
                   category_cache, writer>>

\* ---- the admin's add and change views of ProductLine and ProductImage: the instance
\* is built from the form (add: no pk) or loaded and edited (change), saved and dropped.
Admin_ProductLine_save(self) == ProductLine_save(self) /\ UNCHANGED <<pl, img>>
Admin_ProductLine_delete(id) == ProductLine_delete(id) /\ UNCHANGED <<pl, img>>
Admin_ProductImage_save(self) == ProductImage_save(self) /\ UNCHANGED <<pl, img>>
Admin_ProductImage_delete(id) == ProductImage_delete(id) /\ UNCHANGED <<pl, img>>

\* ---- a caller that keeps the instance it works on between calls: a ProductLine (pl)
\* or a ProductImage (img), one at a time
\* pl = ProductLine(product=p, order=o)
Caller_ProductLine_init(p, o) ==
    /\ p \in Ids(product)
    /\ pl' = [BlankLine EXCEPT !.product = p, !.order = o, !.price = 10]
    /\ img' = BlankImage
    /\ Done("ProductLine()", {}, None)
    /\ UNCHANGED <<tables, seq, category_cache, writer>>

\* pl = ProductLine.objects.get(pk=id)
Caller_ProductLine_get(id) ==
    /\ id \in Ids(product_line)
    /\ pl' = Row(product_line, id)
    /\ img' = BlankImage
    /\ Done("ProductLine.get", {}, None)
    /\ UNCHANGED <<tables, seq, category_cache, writer>>

\* pl.<field> = value
Caller_ProductLine_set(field, value) ==
    /\ pl.product # None
    /\ pl[field] # value
    /\ pl' = [pl EXCEPT ![field] = value]
    /\ Done("ProductLine.set", {}, None)
    /\ UNCHANGED <<tables, seq, img, category_cache, writer>>

\* pl.save(): Model.save() sets the pk of an inserted row on the instance, and nothing else
Caller_ProductLine_save ==
    /\ ProductLine_save(pl)
    /\ pl' = IF ProductLine_full_clean(pl) = {}
             THEN [pl EXCEPT !.id = SavedId(product_line, pl, "product_line")]
             ELSE pl
    /\ UNCHANGED img

\* pl.delete(): the instance's pk is set to None
Caller_ProductLine_delete ==
    /\ ProductLine_delete(pl.id)
    /\ pl' = [pl EXCEPT !.id = None]
    /\ UNCHANGED img

Caller_ProductImage_init(l, o) ==
    /\ l \in Ids(product_line)
    /\ img' = [BlankImage EXCEPT !.product_line = l, !.order = o, !.url = "a.jpg"]
    /\ pl' = BlankLine
    /\ Done("ProductImage()", {}, None)
    /\ UNCHANGED <<tables, seq, category_cache, writer>>

Caller_ProductImage_get(id) ==
    /\ id \in Ids(product_image)
    /\ img' = Row(product_image, id)
    /\ pl' = BlankLine
    /\ Done("ProductImage.get", {}, None)
    /\ UNCHANGED <<tables, seq, category_cache, writer>>

Caller_ProductImage_set(field, value) ==
    /\ img.product_line # None
    /\ img[field] # value
    /\ img' = [img EXCEPT ![field] = value]
    /\ Done("ProductImage.set", {}, None)
    /\ UNCHANGED <<tables, seq, pl, category_cache, writer>>

Caller_ProductImage_save ==
    /\ ProductImage_save(img)
    /\ img' = IF ProductImage_full_clean(img) = {}
              THEN [img EXCEPT !.id = SavedId(product_image, img, "product_image")]
              ELSE img
    /\ UNCHANGED pl

Caller_ProductImage_delete ==
    /\ ProductImage_delete(img.id)
    /\ img' = [img EXCEPT !.id = None]
    /\ UNCHANGED pl

\* ---- Attribute, AttributeValue (admin.site.register) and the
\* ProductLineAttributeValue join (AttributeValueInLine of ProductLineAdmin)
Attribute_save(id, name) ==
    LET self == [id |-> id, name |-> name]
    IN  /\ id = None => AttrRows < MaxAttrRows
        /\ id # None => id \in Ids(attribute)
        /\ attribute' = Upsert(attribute, [self EXCEPT !.id = SavedId(attribute, self, "attribute")])
        /\ seq' = NextSeq(self, "attribute")
        /\ Done("Attribute.save", {}, None)
        /\ UNCHANGED <<category, product, product_line, product_image, attribute_value, plav, pav,
                       pl, img, category_cache, writer>>

\* AttributeValue has no clean() and no save() override: any attribute may be given
AttributeValue_save(id, attr, value) ==
    LET self == [id |-> id, attribute |-> attr, value |-> value]
    IN  /\ id = None => AttrRows < MaxAttrRows
        /\ id # None => id \in Ids(attribute_value)
        /\ attr \in Ids(attribute)
        /\ attribute_value' = Upsert(attribute_value,
                                     [self EXCEPT !.id = SavedId(attribute_value, self,
                                                                 "attribute_value")])
        /\ seq' = NextSeq(self, "attribute_value")
        /\ Done("AttributeValue.save", {}, None)
        /\ UNCHANGED <<category, product, product_line, product_image, attribute, plav, pav,
                       pl, img, category_cache, writer>>

\* ProductLineAttributeValue.attribute_value and ProductAttributeValue.attribute_value
\* are on_delete=CASCADE
AttributeValue_delete(id) ==
    /\ id \in Ids(attribute_value)
    /\ attribute_value' = {r \in attribute_value : r.id # id}
    /\ plav' = {r \in plav : r.attribute_value # id}
    /\ pav' = {r \in pav : r.attribute_value # id}
    /\ Done("AttributeValue.delete", {}, None)
    /\ UNCHANGED <<category, product, product_line, product_image, attribute, seq,
                   pl, img, category_cache, writer>>

\* the ids of the Attributes that have a value attached to the line
\* (Attribute.objects.filter(attribute_value__product_line_attribute_value=line))
AttributesOfLine(line) ==
    {Row(attribute_value, j.attribute_value).attribute :
         j \in {x \in plav : x.product_line = line}}

\* ProductLineAttributeValue.clean that looks for the value, not its attribute (mutant)
ProductLineAttributeValue_clean_by_value(self) ==
    LET query_set == \E j \in plav : /\ j.attribute_value = self.attribute_value
                                     /\ j.product_line = self.product_line
    IN  /\ ~query_set
        /\ self.attribute_value \in {j.attribute_value :
                                         j \in {x \in plav : x.product_line = self.product_line}}

\* ProductLineAttributeValue.clean: TRUE when it raises
\* ValidationError('Duplicate attribute exists')
ProductLineAttributeValue_clean(self) ==
    LET query_set == \E j \in plav : /\ j.attribute_value = self.attribute_value
                                     /\ j.product_line = self.product_line
        iqs == AttributesOfLine(self.product_line)
    IN  /\ ~query_set
        /\ Row(attribute_value, self.attribute_value).attribute \in iqs

\* Meta.unique_together = ('attribute_value', 'product_line'), checked by
\* full_clean() -> validate_unique(): another row (any row, for a new instance) has the pair
ProductLineAttributeValue_unique_together(self) ==
    \E j \in plav : /\ j.id # self.id
                    /\ j.attribute_value = self.attribute_value
                    /\ j.product_line = self.product_line

\* full_clean() of a ProductLineAttributeValue: clean_fields, clean(), validate_unique()
ProductLineAttributeValue_full_clean(self) ==
    (IF ProductLineAttributeValue_clean(self) THEN {"Duplicate attribute exists"} ELSE {})
    \cup (IF ProductLineAttributeValue_unique_together(self) THEN {"unique_together"} ELSE {})

\* ProductLineAttributeValue.save: full_clean(), then Model.save()
ProductLineAttributeValue_save(self) ==
    LET errors == ProductLineAttributeValue_full_clean(self)
        id == SavedId(plav, self, "plav")
    IN  /\ self.id = None => AttrRows < MaxAttrRows
        /\ self.id # None => self.id \in Ids(plav)
        /\ self.attribute_value \in Ids(attribute_value)
        /\ self.product_line \in Ids(product_line)
        /\ IF errors = {}
           THEN /\ plav' = Upsert(plav, [self EXCEPT !.id = id])
                /\ seq' = NextSeq(self, "plav")
           ELSE UNCHANGED <<plav, pav, seq>>
        /\ Done("ProductLineAttributeValue.save", errors, self)
        /\ UNCHANGED <<category, product, product_line, product_image, attribute,
                       attribute_value, pav, pl, img, category_cache, writer>>

ProductLineAttributeValue_delete(id) ==
    /\ id \in Ids(plav)
    /\ plav' = {r \in plav : r.id # id}
    /\ Done("ProductLineAttributeValue.delete", {}, None)
    /\ UNCHANGED <<category, product, product_line, product_image, attribute,
                   attribute_value, pav, seq, pl, img, category_cache, writer>>

\* ProductAttributeValue (AttributeValueProductInLine of ProductAdmin): no clean();
\* Meta.unique_together = ('attribute_value', 'product')
ProductAttributeValue_save(self) ==
    LET errors == IF \E j \in pav : /\ j.id # self.id
                                    /\ j.attribute_value = self.attribute_value
                                    /\ j.product = self.product
                  THEN {"unique_together"} ELSE {}
    IN  /\ self.id = None => AttrRows + seq["pav"] < MaxAttrRows
        /\ self.id # None => self.id \in Ids(pav)
        /\ self.attribute_value \in Ids(attribute_value)
        /\ self.product \in Ids(product)
        /\ IF errors = {}
           THEN /\ pav' = Upsert(pav, [self EXCEPT !.id = SavedId(pav, self, "pav")])
                /\ seq' = NextSeq(self, "pav")
           ELSE UNCHANGED <<pav, seq>>
        /\ Done("ProductAttributeValue.save", errors, self)
        /\ UNCHANGED <<category, product, product_line, product_image, attribute,
                       attribute_value, plav, pl, img, category_cache, writer>>

\* --------------------------------------------------------- serializers.py
\* A query with no ORDER BY returns its rows in an order the database chooses: rank
\* gives each row's position in that order.
Rankings(S) == {f \in [S -> 1 .. Cardinality(S)] : \A x, y \in S : x # y => f[x] # f[y]}

\* a dict filled by update() in list order: the last pair of a key wins
DictOf(pairs, rank) ==
    [k \in {q.key : q \in pairs} |->
        (CHOOSE q \in pairs : /\ q.key = k
                              /\ \A o \in pairs : o.key = k => rank[o.id] <= rank[q.id]).value]

\* CategorySerializer: fields = ['category', 'slug'], category = name
CategorySerializer(c) == [category |-> c.name, slug |-> c.slug]

\* ProductImageSerializer: exclude = ('id', 'product_line')
ProductImageSerializer(i) == [order |-> i.order, url |-> i.url]

\* the related managers instance.product_image, instance.product_line, instance.attribute_value
ImagesOf(l) == {i \in product_image : i.product_line = l.id}
LinesOf(p) == {l \in product_line : l.product = p.id}
ValuesOfLine(l) == {Row(attribute_value, j.attribute_value) :
                        j \in {x \in plav : x.product_line = l.id}}
ValuesOfProduct(p) == {Row(attribute_value, j.attribute_value) :
                           j \in {x \in pav : x.product = p.id}}

\* ProductLineSerializer.to_representation: attribute_value popped, specification added
ProductLineSerializer_to_representation(instance, rank) ==
    [price |-> instance.price,
     order |-> instance.order,
     product_image |-> {ProductImageSerializer(i) : i \in ImagesOf(instance)},
     specification |-> DictOf({[key |-> v.attribute, value |-> v.value, id |-> v.id] :
                                   v \in ValuesOfLine(instance)}, rank)]

\* ProductSerializer.to_representation: attribute_value popped, attribute added
ProductSerializer_to_representation(instance, rank) ==
    [slug |-> instance.slug,
     pid |-> instance.pid,
     product_line |-> {ProductLineSerializer_to_representation(l, rank) : l \in LinesOf(instance)},
     attribute |-> DictOf({[key |-> Row(attribute, v.attribute).name, value |-> v.value,
                            id |-> v.id] : v \in ValuesOfProduct(instance)}, rank)]

\* ProductLineCategorySerializer: fields = ('price', 'product_image')
ProductLineCategorySerializer(l) ==
    [price |-> l.price, product_image |-> {ProductImageSerializer(i) : i \in ImagesOf(l)}]

\* product_line[0] and product_line[-1] of the serialized list, in the order line_rank
FirstLine(lines, line_rank) == CHOOSE l \in lines : \A o \in lines : line_rank[l.id] <= line_rank[o.id]
LastLine(lines, line_rank) == CHOOSE l \in lines : \A o \in lines : line_rank[o.id] <= line_rank[l.id]

\* ProductCategorySerializer.to_representation that takes the image of the last line (mutant)
ProductCategorySerializer_to_representation_last_image(instance, line_rank) ==
    LET lines == LinesOf(instance)
        base == [slug |-> instance.slug, pid |-> instance.pid,
                 keys |-> {"name", "slug", "pid", "created_at"}, price |-> None, image |-> {}]
    IN  IF lines # {}
        THEN [base EXCEPT
                 !.keys = @ \cup {"price", "image"},
                 !.price = ProductLineCategorySerializer(FirstLine(lines, line_rank)).price,
                 !.image = ProductLineCategorySerializer(
                               LastLine(lines, line_rank)).product_image]
        ELSE base

\* ProductCategorySerializer.to_representation: product_line popped; when it is not
\* empty, price and image of its first item are added.  keys = the keys of the document.
ProductCategorySerializer_to_representation(instance, line_rank) ==
    LET lines == LinesOf(instance)
        base == [slug |-> instance.slug, pid |-> instance.pid,
                 keys |-> {"name", "slug", "pid", "created_at"}, price |-> None, image |-> {}]
    IN  IF lines # {}
        THEN LET item == ProductLineCategorySerializer(FirstLine(lines, line_rank))
             IN  [base EXCEPT !.keys = @ \cup {"price", "image"},
                              !.price = item.price,
                              !.image = item.product_image]
        ELSE base

\* --------------------------------------------------------------- views.py
Respond(op, kind, slug, body) ==
    /\ response' = [kind |-> kind, slug |-> slug, body |-> body]
    /\ last' = [op |-> op, errors |-> {}, self |-> None]

\* CategoryViewSet.list: the class attribute queryset is one QuerySet object for every
\* request; serializing it iterates it, which runs the query the first time and keeps
\* the rows in its result cache from then on.
CategoryViewSet_list ==
    LET rows == IF category_cache.evaluated
                THEN category_cache.rows
                ELSE IsActiveQueryset_is_active(category)
    IN  /\ category_cache' = [evaluated |-> TRUE, rows |-> rows]
        /\ Respond("CategoryViewSet.list", "categories", "",
                   {CategorySerializer(c) : c \in rows})
        /\ UNCHANGED <<tables, seq, pl, img, writer>>

\* ProductViewSet.retrieve: self.queryset.filter(slug=slug) is a new QuerySet for each
\* request (the class attribute itself is never iterated)
ProductViewSet_retrieve(slug) ==
    \E rank \in Rankings(Ids(attribute_value)) :
        LET queryset == IsActiveQueryset_is_active(product)
            qs == {p \in queryset : p.slug = slug}
        IN  /\ Respond("ProductViewSet.retrieve", "product", slug,
                       {ProductSerializer_to_representation(p, rank) : p \in qs})
            /\ UNCHANGED <<tables, seq, pl, img, category_cache, writer>>

\* ProductViewSet.list_product_by_category_slug: self.queryset.filter(category__slug=slug)
ProductViewSet_list_product_by_category_slug(slug) ==
    \E line_rank \in Rankings(Ids(product_line)) :
        LET queryset == IsActiveQueryset_is_active(product)
            qs == {p \in queryset : \E c \in category : c.id = p.category /\ c.slug = slug}
        IN  /\ Respond("ProductViewSet.list_product_by_category_slug", "category_products",
                       slug,
                       {ProductCategorySerializer_to_representation(p, line_rank) : p \in qs})
            /\ UNCHANGED <<tables, seq, pl, img, category_cache, writer>>

\* ------------------------------------------- concurrent ProductLine.save
\* Two writers (two requests, two processes) each run ProductLine.save on a new
\* instance with the order unset.  save() is not one step: full_clean() runs its
\* SELECTs, then Model.save() has the SQL compiler call OrderField.pre_save, whose
\* latest() is another SELECT, and only then sends the INSERT.  Nothing locks the
\* siblings between these statements, so they interleave with the other writer's.
\* log keeps, for each save a writer finished, the row id it wrote (None when
\* full_clean raised), the value pre_save returned, the sibling rows pre_save's
\* query saw, and the errors raised.
Writers == {"w1", "w2"}
IdleWriter == [pc |-> "idle", self |-> BlankLine, errors |-> {}, value |-> None,
               seen |-> {}, log |-> {}]
InFlight == Cardinality({w \in Writers : writer[w].pc # "idle"})

\* ProductLine(product=p, price=price) and the call of save()
Writer_begin(w, p, price) ==
    /\ writer[w].pc = "idle"
    /\ OrderedRows + InFlight < MaxRows
    /\ writer' = [writer EXCEPT ![w] = [@ EXCEPT
                     !.pc = "full_clean",
                     !.self = [BlankLine EXCEPT !.product = p, !.price = price],
                     !.errors = {}, !.value = None, !.seen = {}]]
    /\ UNCHANGED <<tables, seq, pl, img, category_cache, last, response>>

\* ProductLine.save: self.full_clean()
Writer_full_clean(w) ==
    LET self == writer[w].self
        errors == ProductLine_full_clean(self)
    IN  /\ writer[w].pc = "full_clean"
        /\ IF errors = {}
           THEN /\ writer' = [writer EXCEPT ![w] = [@ EXCEPT !.pc = "pre_save"]]
                /\ UNCHANGED <<last, response>>
           ELSE /\ writer' = [writer EXCEPT ![w] = [@ EXCEPT
                                 !.pc = "idle", !.errors = errors,
                                 !.log = @ \cup {[id |-> None, value |-> None, seen |-> {},
                                                  errors |-> errors]}]]
                /\ Done("ProductLine.save", errors, self)
        /\ UNCHANGED <<tables, seq, pl, img, category_cache>>

\* Model.save(): OrderField.pre_save reads the siblings and returns the value
Writer_pre_save(w) ==
    LET self == writer[w].self
        value == OrderField_pre_save(product_line, "product", self)
    IN  /\ writer[w].pc = "pre_save"
        /\ value <= MaxOrder
        /\ writer' = [writer EXCEPT ![w] = [@ EXCEPT
                         !.pc = "insert", !.value = value,
                         !.seen = {r.id : r \in {x \in product_line :
                                                     x.product = self.product}}]]
        /\ UNCHANGED <<tables, seq, pl, img, category_cache, last, response>>

\* Model.save(): the INSERT with the value pre_save returned
Writer_insert(w) ==
    LET self == writer[w].self
        id == SavedId(product_line, self, "product_line")
    IN  /\ writer[w].pc = "insert"
        /\ product_line' = Upsert(product_line,
                                  [self EXCEPT !.id = id, !.order = writer[w].value])
        /\ seq' = NextSeq(self, "product_line")
        /\ writer' = [writer EXCEPT ![w] = [@ EXCEPT
                         !.pc = "idle",
                         !.log = @ \cup {[id |-> id, value |-> writer[w].value,
                                          seen |-> writer[w].seen, errors |-> {}]}]]
        /\ Done("ProductLine.save", {}, self)
        /\ UNCHANGED <<category, product, product_image, attribute, attribute_value, plav,
                       pav, pl, img, category_cache>>

\* ------------------------------------------------------------------- Init
Init ==
    /\ category = {}
    /\ product = {}
    /\ product_line = {}
    /\ product_image = {}
    /\ attribute = {}
    /\ attribute_value = {}
    /\ plav = {}
    /\ pav = {}
    /\ seq = [t \in {"category", "product", "product_line", "product_image", "attribute",
                     "attribute_value", "plav", "pav"} |-> 0]
    /\ pl = BlankLine
    /\ img = BlankImage
    /\ category_cache = [evaluated |-> FALSE, rows |-> {}]
    /\ writer = [w \in Writers |-> IdleWriter]
    /\ last = [op |-> "", errors |-> {}, self |-> None]
    /\ response = NoResponse

\* ---------------------------------------------- the ordering specification
\* The writes that decide sibling order, under one product per pid.  save() is called
\* on every instance a writer can hold: new (no pk) or of a stored row, with an explicit
\* order or none, under any parent.
Orders == 1 .. MaxOrder
FreePids == Pids \ {p.pid : p \in product}
FreePid == CHOOSE s \in FreePids : TRUE

LineInstances ==
    [id : Ids(product_line) \cup {None}, product : Ids(product), order : Orders \cup {None},
     is_active : {FALSE}, price : {10}]

ImageInstances ==
    [id : Ids(product_image) \cup {None}, product_line : Ids(product_line),
     order : Orders \cup {None}, url : {"a.jpg"}]

NextOrder ==
    \/ Category_save(None, "n1", "c1", FALSE)
    \/ \E c \in Ids(category) : FreePids # {} /\ Product_save(None, FreePid, "s1", FALSE, c)
    \/ \E self \in LineInstances : Admin_ProductLine_save(self)
    \/ \E id \in Ids(product_line) : Admin_ProductLine_delete(id)
    \/ \E self \in ImageInstances : Admin_ProductImage_save(self)
    \/ \E id \in Ids(product_image) : Admin_ProductImage_delete(id)

SpecOrder == Init /\ [][NextOrder]_vars

\* The same writes by a caller that keeps its instances between calls.
NextCaller ==
    \/ Category_save(None, "n1", "c1", FALSE)
    \/ \E c \in Ids(category) : FreePids # {} /\ Product_save(None, FreePid, "s1", FALSE, c)
    \/ \E p \in Ids(product), o \in Orders \cup {None} : Caller_ProductLine_init(p, o)
    \/ \E id \in Ids(product_line) : Caller_ProductLine_get(id)
    \/ \E o \in Orders : Caller_ProductLine_set("order", o)
    \/ \E p \in Ids(product) : Caller_ProductLine_set("product", p)
    \/ Caller_ProductLine_save
    \/ Caller_ProductLine_delete
    \/ \E l \in Ids(product_line), o \in Orders \cup {None} : Caller_ProductImage_init(l, o)
    \/ \E id \in Ids(product_image) : Caller_ProductImage_get(id)
    \/ \E o \in Orders : Caller_ProductImage_set("order", o)
    \/ \E l \in Ids(product_line) : Caller_ProductImage_set("product_line", l)
    \/ Caller_ProductImage_save
    \/ Caller_ProductImage_delete

SpecCaller == Init /\ [][NextCaller]_vars

\* -------------------------------------------- the attribute specification
\* The admin's writes on attributes (one per name), their values and the joins of
\* lines to values, over the lines of one product.
FreeAttrNames == AttrNames \ {a.name : a \in attribute}
FreeAttrName == CHOOSE n \in FreeAttrNames : TRUE

JoinInstances ==
    [id : Ids(plav) \cup {None}, attribute_value : Ids(attribute_value),
     product_line : Ids(product_line)]

NextAttr ==
    \/ Category_save(None, "n1", "c1", FALSE)
    \/ \E c \in Ids(category) : product = {} /\ Product_save(None, "p1", "s1", FALSE, c)
    \/ \E p \in Ids(product) :
           /\ seq["product_line"] < MaxAttrLines
           /\ Admin_ProductLine_save([BlankLine EXCEPT !.product = p, !.price = 10])
    \/ FreeAttrNames # {} /\ Attribute_save(None, FreeAttrName)
    \/ \E id \in Ids(attribute_value) \cup {None}, a \in Ids(attribute) :
           AttributeValue_save(id, a, "red")
    \/ \E id \in Ids(attribute_value) : AttributeValue_delete(id)
    \/ \E self \in JoinInstances : ProductLineAttributeValue_save(self)
    \/ \E id \in Ids(plav) : ProductLineAttributeValue_delete(id)

SpecAttr == Init /\ [][NextAttr]_vars

\* ------------------------------------------------- the read specifications
\* Categories written by the admin (created, renamed, activated, deactivated, deleted)
\* and listed.
NextCategory ==
    \/ \E id \in Ids(category) \cup {None}, n \in Names, c \in CatSlugs, a \in BOOLEAN :
           Category_save(id, n, c, a)
    \/ \E id \in Ids(category) : Category_delete(id)
    \/ CategoryViewSet_list

SpecCategory == Init /\ [][NextCategory]_vars

\* Products (one per pid) of the categories (one per slug), their lines and images
\* written by the admin with the order left unset, and the two product endpoints.
FreeCatSlugs == CatSlugs \ {c.slug : c \in category}
FreeCatSlug == CHOOSE c \in FreeCatSlugs : TRUE
FreeName == CHOOSE n \in Names \ {c.name : c \in category} : TRUE

NextRead ==
    \/ FreeCatSlugs # {} /\ Category_save(None, FreeName, FreeCatSlug, FALSE)
    \/ \E s \in Slugs, a \in BOOLEAN, c \in Ids(category) :
           FreePids # {} /\ Product_save(None, FreePid, s, a, c)
    \/ \E p \in product : Product_save(p.id, p.pid, p.slug, ~p.is_active, p.category)
    \/ \E p \in Ids(product), a \in BOOLEAN, pr \in Prices :
           Admin_ProductLine_save([BlankLine EXCEPT !.product = p, !.is_active = a, !.price = pr])
    \/ \E l \in Ids(product_line), u \in Urls :
           Admin_ProductImage_save([BlankImage EXCEPT !.product_line = l, !.url = u])
    \/ \E slug \in Slugs : ProductViewSet_retrieve(slug)
    \/ \E slug \in CatSlugs : ProductViewSet_list_product_by_category_slug(slug)

SpecRead == Init /\ [][NextRead]_vars

\* Products created active or inactive under either slug, activated and deactivated,
\* given lines, and retrieved by slug.
NextRetrieve ==
    \/ FreeCatSlugs # {} /\ Category_save(None, FreeName, FreeCatSlug, FALSE)
    \/ \E s \in Slugs, a \in BOOLEAN, c \in Ids(category) :
           FreePids # {} /\ Product_save(None, FreePid, s, a, c)
    \/ \E p \in product : Product_save(p.id, p.pid, p.slug, ~p.is_active, p.category)
    \/ \E p \in Ids(product), pr \in Prices :
           Admin_ProductLine_save([BlankLine EXCEPT !.product = p, !.price = pr])
    \/ \E slug \in Slugs : ProductViewSet_retrieve(slug)

SpecRetrieve == Init /\ [][NextRetrieve]_vars

\* Active products given lines and images, and listed by category slug.
NextListing ==
    \/ FreeCatSlugs # {} /\ Category_save(None, FreeName, FreeCatSlug, FALSE)
    \/ \E c \in Ids(category) : FreePids # {} /\ Product_save(None, FreePid, "s1", TRUE, c)
    \/ \E p \in Ids(product), pr \in Prices :
           Admin_ProductLine_save([BlankLine EXCEPT !.product = p, !.price = pr])
    \/ \E l \in Ids(product_line), u \in Urls :
           Admin_ProductImage_save([BlankImage EXCEPT !.product_line = l, !.url = u])
    \/ \E slug \in CatSlugs : ProductViewSet_list_product_by_category_slug(slug)

SpecListing == Init /\ [][NextListing]_vars

\* Two writers saving new lines, order unset, of the products (one per pid).
NextRace ==
    \/ FreeCatSlugs # {} /\ Category_save(None, FreeName, FreeCatSlug, FALSE)
    \/ \E c \in Ids(category) : FreePids # {} /\ Product_save(None, FreePid, "s1", FALSE, c)
    \/ \E w \in Writers, p \in Ids(product) : Writer_begin(w, p, 10)
    \/ \E w \in Writers : Writer_full_clean(w)
    \/ \E w \in Writers : Writer_pre_save(w)
    \/ \E w \in Writers : Writer_insert(w)

SpecRace == Init /\ [][NextRace]_vars

\* One active product and its lines given attribute values through the two admin
\* inlines, the values written and edited by the admin, and the product retrieved.
Values == {"red", "blue"}

NextFlatten ==
    \/ Category_save(None, "n1", "c1", FALSE)
    \/ \E c \in Ids(category) : product = {} /\ Product_save(None, "p1", "s1", TRUE, c)
    \/ \E p \in Ids(product) :
           /\ seq["product_line"] < MaxAttrLines
           /\ Admin_ProductLine_save([BlankLine EXCEPT !.product = p, !.price = 10])
    \/ FreeAttrNames # {} /\ Attribute_save(None, FreeAttrName)
    \/ \E id \in Ids(attribute_value) \cup {None}, a \in Ids(attribute), v \in Values :
           AttributeValue_save(id, a, v)
    \/ \E av \in Ids(attribute_value), p \in Ids(product) :
           ProductAttributeValue_save([id |-> None, attribute_value |-> av, product |-> p])
    \/ \E self \in JoinInstances : ProductLineAttributeValue_save(self)
    \/ ProductViewSet_retrieve("s1")

SpecFlatten == Init /\ [][NextFlatten]_vars

\* ------------------------------------------------------------------ claims
SiblingOrders(tbl, field, parent) == {r.order : r \in {x \in tbl : x[field] = parent}}
ExpectedOrder(S) == IF S = {} THEN 1 ELSE Max(S) + 1

\* C1: no two ProductLines of the same Product, and no two ProductImages of the same
\* ProductLine, have the same order, after any sequence of saves and deletes.
C1_SiblingOrderUnique ==
    /\ \A a, b \in product_line : (a.id # b.id /\ a.product = b.product) => a.order # b.order
    /\ \A a, b \in product_image :
           (a.id # b.id /\ a.product_line = b.product_line) => a.order # b.order

\* C1 witness: a stored line was saved again with an explicit order and now has a
\* sibling, while a line of another product holds the sibling's order number.
C1_Witness ==
    /\ last.op = "ProductLine.save" /\ last.errors = {}
    /\ last.self.id # None /\ last.self.order # None
    /\ \E a, b, c \in product_line :
           /\ a.id = last.self.id /\ b.id # a.id /\ b.product = a.product
           /\ c.product # a.product /\ c.order = b.order

\* C2: a new row saved with its order unset is stored with (the greatest order among
\* the stored rows of the same parent) + 1, or 1 when the parent has no row; rows of
\* other parents do not count.
C2_AutoOrder ==
    [][/\ (last'.op = "ProductLine.save" /\ last'.self.id = None /\ last'.self.order = None)
          => /\ last'.errors = {}
             /\ \E r \in product_line' :
                    /\ r.id \notin Ids(product_line)
                    /\ r.product = last'.self.product
                    /\ r.order = ExpectedOrder(
                                     SiblingOrders(product_line, "product", last'.self.product))
                    /\ product_line' = product_line \cup {r}
       /\ (last'.op = "ProductImage.save" /\ last'.self.id = None /\ last'.self.order = None)
          => /\ last'.errors = {}
             /\ \E r \in product_image' :
                    /\ r.id \notin Ids(product_image)
                    /\ r.product_line = last'.self.product_line
                    /\ r.order = ExpectedOrder(
                                     SiblingOrders(product_image, "product_line",
                                                   last'.self.product_line))
                    /\ product_image' = product_image \cup {r}
      ]_vars

\* C2 witness: a line was just inserted with its order unset under a product whose
\* lines leave a gap, and a line of another product holds the same order number.
C2_Witness ==
    /\ last.op = "ProductLine.save" /\ last.errors = {}
    /\ last.self.id = None /\ last.self.order = None
    /\ \E r, c \in product_line :
           /\ r.id = seq["product_line"] /\ r.product = last.self.product
           /\ c.product # r.product /\ c.order = r.order
           /\ \E g \in 1 .. r.order : g \notin SiblingOrders(product_line, "product", r.product)

\* C3 (as claimed): once a row created without an explicit order is stored, a later
\* save of the same instance, with no order assigned to it, leaves the stored order
\* unchanged.
C3_PopulatedOnce ==
    [][/\ (last'.op = "ProductLine.save" /\ last'.errors = {}
           /\ pl.id \in Ids(product_line) /\ pl.order = None)
          => Row(product_line', pl.id).order = Row(product_line, pl.id).order
       /\ (last'.op = "ProductImage.save" /\ last'.errors = {}
           /\ img.id \in Ids(product_image) /\ img.order = None)
          => Row(product_image', img.id).order = Row(product_image, img.id).order
      ]_vars

\* C4: saving a ProductLine with an explicit order that another stored line of the
\* same product has fails validation and leaves every table as it was; saving an
\* instance equal to its stored row is never rejected for its order.
C4_DuplicateRejected ==
    [][last'.op = "ProductLine.save" =>
          LET self == last'.self IN
          /\ (/\ self.order # None
              /\ \E obj \in product_line :
                     obj.product = self.product /\ obj.id # self.id /\ obj.order = self.order)
             => ("Duplicate value." \in last'.errors /\ tables' = tables)
          /\ self \in product_line => "Duplicate value." \notin last'.errors
      ]_vars

\* C4 witness: the change of a stored line to the order of one of its siblings was
\* rejected.
C4_Witness ==
    /\ last.op = "ProductLine.save" /\ "Duplicate value." \in last.errors
    /\ last.self.id \in Ids(product_line)
    /\ \E obj \in product_line :
           obj.product = last.self.product /\ obj.id # last.self.id /\ obj.order = last.self.order

\* the Attribute of the value a join attaches
AxisOf(j) == Row(attribute_value, j.attribute_value).attribute

\* C5 (as claimed): no ProductLine has two attached AttributeValues of the same
\* Attribute, after any sequence of the admin's writes.
C5_NoDuplicateAxis ==
    \A j, k \in plav :
        (j.product_line = k.product_line /\ j.attribute_value # k.attribute_value)
        => AxisOf(j) # AxisOf(k)

\* a new join that attaches, to a line, a value whose Attribute the line already has
\* through a different value
SecondValueOfAxis(self, joins) ==
    \E j \in joins : /\ j.product_line = self.product_line
                     /\ j.attribute_value # self.attribute_value
                     /\ AxisOf(j) = AxisOf(self)

\* a new join for a pair that is already attached
PairAttached(self, joins) ==
    \E j \in joins : /\ j.product_line = self.product_line
                     /\ j.attribute_value = self.attribute_value

\* C6 (as claimed): attaching a second value of an Attribute the line already has fails
\* validation, and saving a new join for a pair already attached reports no validation
\* failure and leaves the joins as they were.
C6_DuplicatePairIsNoOp ==
    [][(last'.op = "ProductLineAttributeValue.save" /\ last'.self.id = None) =>
          /\ SecondValueOfAxis(last'.self, plav) => last'.errors # {}
          /\ PairAttached(last'.self, plav) => (last'.errors = {} /\ plav' = plav)
      ]_vars

\* C6 (amended): attaching a second value of an Attribute the line already has fails
\* validation, and saving a new join for a pair already attached fails validation too
\* (the pair is unique_together); in both cases the joins stay as they were.
C6_DuplicatePairRejected ==
    [][(last'.op = "ProductLineAttributeValue.save" /\ last'.self.id = None) =>
          /\ SecondValueOfAxis(last'.self, plav) => (last'.errors # {} /\ plav' = plav)
          /\ (SecondValueOfAxis(last'.self, plav) /\ ~PairAttached(last'.self, plav))
             => "Duplicate attribute exists" \in last'.errors
          /\ PairAttached(last'.self, plav)
             => (last'.errors = {"unique_together"} /\ plav' = plav)
      ]_vars

\* C6 witness: a new join for a pair already attached was just rejected, on a line
\* that has a single value of that Attribute.
C6_Witness ==
    /\ last.op = "ProductLineAttributeValue.save" /\ last.self.id = None
    /\ last.errors = {"unique_together"}
    /\ PairAttached(last.self, plav)
    /\ ~SecondValueOfAxis(last.self, plav)

\* a second value of an Attribute was just rejected for a line that has another
C6_WitnessSecondValue ==
    /\ last.op = "ProductLineAttributeValue.save" /\ last.self.id = None
    /\ "Duplicate attribute exists" \in last.errors
    /\ SecondValueOfAxis(last.self, plav)

\* C7: every GET /categories response holds exactly the categories that are active
\* in the store at the time of the request; no result of an earlier request is served
\* by a later one.  (Every write clears response, so a response that is present was
\* produced from the store as it is now.)
C7_CategoriesAreCurrent ==
    response.kind = "categories" =>
        response.body = {CategorySerializer(c) : c \in IsActiveQueryset_is_active(category)}

\* C8: no read response contains an entity whose active flag is false: every
\* Category of GET /categories, every Product of the two product endpoints and every
\* ProductLine nested in or hoisted into a product document is active.
C8_OnlyActiveEntities ==
    /\ response.kind = "categories" =>
           \A d \in response.body :
               \E c \in category : c.is_active /\ CategorySerializer(c) = d
    /\ response.kind = "product" =>
           \A d \in response.body :
               \E p \in product :
                   /\ p.is_active /\ p.pid = d.pid
                   /\ \A ld \in d.product_line :
                          \E l \in LinesOf(p) :
                              l.is_active /\ l.order = ld.order /\ l.price = ld.price
    /\ response.kind = "category_products" =>
           \A d \in response.body :
               \E p \in product :
                   /\ p.is_active /\ p.pid = d.pid
                   /\ "price" \in d.keys =>
                          \E l \in LinesOf(p) :
                              l.is_active /\ ProductLineCategorySerializer(l).price = d.price
                                          /\ ProductLineCategorySerializer(l).product_image = d.image

\* C9: GET /products/{slug} returns an empty array, not an error, whenever no active
\* Product has that slug: when no Product has the slug and when every Product with
\* the slug is inactive.
C9_EmptyArrayForNoActiveProduct ==
    (/\ response.kind = "product"
     /\ ~\E p \in product : p.slug = response.slug /\ p.is_active)
        => response.body = {} /\ last.errors = {}

\* a slug that only inactive products have was retrieved, while an active product
\* with the other slug is in the store
C9_Witness ==
    /\ response.kind = "product"
    /\ response.body = {}
    /\ \E p \in product : p.slug = response.slug /\ ~p.is_active
    /\ ~\E p \in product : p.slug = response.slug /\ p.is_active
    /\ \E p \in product : p.slug # response.slug /\ p.is_active

\* C10 as stated: every document of GET /products/category/{slug} carries a top-level
\* price and image taken from a ProductLine of the product, products with no
\* ProductLine included, and never carries product_line.
C10_EveryDocumentHasPriceAndImage ==
    response.kind = "category_products" =>
        \A d \in response.body :
            /\ "product_line" \notin d.keys
            /\ {"price", "image"} \subseteq d.keys

\* C10 amended: a document of GET /products/category/{slug} never carries
\* product_line; when the product has ProductLines it carries the price and the
\* images of one and the same of them as price and image; when the product has no
\* ProductLine it carries neither key.
C10_PriceAndImageOfOneLine ==
    response.kind = "category_products" =>
        \A d \in response.body :
            \E p \in product :
                /\ p.pid = d.pid
                /\ "product_line" \notin d.keys
                /\ IF LinesOf(p) = {}
                   THEN d.keys \cap {"price", "image"} = {}
                   ELSE /\ {"price", "image"} \subseteq d.keys
                        /\ \E l \in LinesOf(p) :
                               /\ d.price = l.price
                               /\ d.image = {ProductImageSerializer(i) : i \in ImagesOf(l)}

\* one listing holds a product with two lines of which one has an image, and a
\* product with no line
C10_Witness ==
    /\ response.kind = "category_products"
    /\ \E d \in response.body :
           \E p \in product : /\ p.pid = d.pid
                              /\ Cardinality(LinesOf(p)) >= 2
                              /\ \E l \in LinesOf(p) : ImagesOf(l) # {}
    /\ \E d \in response.body :
           \E p \in product : p.pid = d.pid /\ LinesOf(p) = {}

\* C11: with two writers whose validate-then-save sequences interleave, two saves of
\* new ProductLines of one Product with the order unset can both read the same
\* maximum before either row is stored, and both rows are stored with the same
\* order, neither save reporting a validation failure (C11_Witness is that state).
\* The formula is the converse: two stored lines of a product share an order only
\* when they were written by saves of two writers, neither of which saw the other's
\* row when it read the maximum, and no save of a line with the order unset has
\* reported a validation failure.
Saves == UNION {{[w |-> w, e |-> e] : e \in writer[w].log} : w \in Writers}

C11_DuplicateOnlyFromInterleavedSaves ==
    /\ \A l1, l2 \in product_line :
           (l1.id # l2.id /\ l1.product = l2.product /\ l1.order = l2.order) =>
               \E s1, s2 \in Saves :
                   /\ s1.w # s2.w
                   /\ s1.e.id = l1.id /\ s2.e.id = l2.id
                   /\ l2.id \notin s1.e.seen /\ l1.id \notin s2.e.seen
                   /\ s1.e.value = s2.e.value
    /\ \A s \in Saves : s.e.errors = {}

\* two lines of one product are stored with the same order by two writers that read
\* the same siblings, hence the same maximum, and neither reported a failure
C11_Witness ==
    \E l1, l2 \in product_line :
        /\ l1.id # l2.id /\ l1.product = l2.product /\ l1.order = l2.order
        /\ \E s1, s2 \in Saves :
               /\ s1.w # s2.w
               /\ s1.e.id = l1.id /\ s2.e.id = l2.id
               /\ s1.e.seen = s2.e.seen /\ s1.e.seen # {}
               /\ s1.e.value = s2.e.value
               /\ s1.e.errors = {} /\ s2.e.errors = {}
        /\ last.op = "ProductLine.save" /\ last.errors = {}

\* C12: the flattening of attribute values loses nothing: the attribute map of a
\* product document has one entry (attribute name -> value) for each AttributeValue
\* attached to the Product, and the specification map of each product_line
\* sub-document has one entry (attribute id -> value) for each AttributeValue
\* attached to that ProductLine, so the number of entries equals the number of
\* attached values.
C12_FlatteningLosesNothing ==
    response.kind = "product" =>
        \A d \in response.body :
            \E p \in product :
                /\ p.pid = d.pid
                /\ Cardinality(DOMAIN d.attribute) = Cardinality(ValuesOfProduct(p))
                /\ \A v \in ValuesOfProduct(p) :
                       /\ Row(attribute, v.attribute).name \in DOMAIN d.attribute
                       /\ d.attribute[Row(attribute, v.attribute).name] = v.value
                /\ \A l \in LinesOf(p) :
                       \E ld \in d.product_line :
                           /\ ld.order = l.order
                           /\ Cardinality(DOMAIN ld.specification)
                                  = Cardinality(ValuesOfLine(l))
                           /\ \A v \in ValuesOfLine(l) :
                                  /\ v.attribute \in DOMAIN ld.specification
                                  /\ ld.specification[v.attribute] = v.value

====
